---- MODULE Spec2Model ----
(***************************************************************************)
(* State-machine model of the CLDB-AI dashboard front end: the three       *)
(* analytic views (CompareCampaigns, EnhancedROI, AdvancedROI), the client *)
(* selection they receive from App, and the backend calls they have in     *)
(* flight.  SpecApp is the whole application and FairSpecApp adds a        *)
(* backend that answers; SpecCompare, SpecROI and SpecAdv are one view     *)
(* each; SpecAPI is the transport layer (handleResponse and the endpoint   *)
(* bindings of apiService) under every outcome of fetch; SpecDisplay       *)
(* applies the display helpers to their inputs.                            *)
(*                                                                         *)
(* A React handler or effect runs to its first `await` without yielding,   *)
(* and its state updates are batched, so each action below is one such     *)
(* synchronous run: a user event together with the effects its state       *)
(* change triggers, or the continuation of an async function after the     *)
(* awaited backend call resolves or rejects.                               *)
(***************************************************************************)
EXTENDS Integers, Sequences, FiniteSets, TLC

VARIABLES
    api,              \* apiService: the endpoint binding being called
    display,          \* the display helper last applied, its input and output
    activeTab,        \* App: the tab whose view is rendered
    selectedClient,   \* App: the client handed to every view (a Client or Null)
    compare,          \* CompareCampaigns component state
    roi,              \* EnhancedROI component state
    adv,              \* AdvancedROI component state
    inflight          \* backend calls awaiting their answer, in issue order

vars == <<api, display, activeTab, selectedClient, compare, roi, adv, inflight>>

(***************************************************************************)
(* Bounds                                                                  *)
(***************************************************************************)
MaxInFlight == 2         \* backend calls that may be pending at once

\* null in an object slot, and null in a string slot
Null == [null |-> TRUE]

NullString == "null"

Range(s) == {s[i] : i \in 1..Len(s)}

(***************************************************************************)
(* The backend, as far as the views can observe it                         *)
(***************************************************************************)
Client(id) == [client_id |-> id]

Clients == {Client(1), Client(2)}

Campaign(id) == [campaign_id |-> id]

\* GET /campaigns/by-client/{client_id}: client 1 has two campaigns, every
\* other client one
CampaignsOf(clientId) ==
    IF clientId = 1 THEN <<Campaign(11), Campaign(12)>>
    ELSE <<Campaign(clientId * 10 + 1)>>

AllCampaigns == UNION {Range(CampaignsOf(c.client_id)) : c \in Clients}

RECURSIVE Without(_, _)
Without(s, x) ==
    IF s = <<>> THEN <<>>
    ELSE IF Head(s) = x THEN Without(Tail(s), x)
    ELSE <<Head(s)>> \o Without(Tail(s), x)

\* GET /campaigns/{campaign_id}/similar-duration: the other campaigns of
\* the same client
SimilarOf(campaignId) ==
    Without(CampaignsOf(campaignId \div 10), Campaign(campaignId))

\* POST /compare
CompareOf(ids) == [campaign_ids |-> ids]

\* what an endpoint binding can throw
APIErrors == {[name |-> "APIError", message |-> "HTTP 500: Internal Server Error"]}

RemoveAt(s, i) == SubSeq(s, 1, i - 1) \o SubSeq(s, i + 1, Len(s))

Request(op, body, closure) == [op |-> op, body |-> body, closure |-> closure]

NoClosure == [none |-> TRUE]

(***************************************************************************)
(* CompareCampaigns                                                        *)
(***************************************************************************)
CompareInit ==
    [campaigns |-> <<>>,
     primaryCampaign |-> Null,
     comparisonCampaign |-> Null,
     similarCampaigns |-> <<>>,
     compareResult |-> Null,
     isLoadingCampaigns |-> FALSE,
     isLoadingSimilar |-> FALSE,
     isAnalyzing |-> FALSE,
     campaignError |-> NullString,
     similarError |-> NullString,
     analysisError |-> NullString]

\* error instanceof APIError ? error.message : fallback
APIErrorMessage(error, fallback) ==
    IF error.name = "APIError" THEN error.message ELSE fallback

\* loadCampaigns up to its await
CmpLoadCampaignsStart(v, client) ==
    IF client = Null
    THEN [v EXCEPT !.campaigns = <<>>,
                   !.primaryCampaign = Null,
                   !.comparisonCampaign = Null,
                   !.similarCampaigns = <<>>]
    ELSE [v EXCEPT !.isLoadingCampaigns = TRUE,
                   !.campaignError = NullString,
                   !.primaryCampaign = Null,
                   !.comparisonCampaign = Null,
                   !.similarCampaigns = <<>>]

\* loadSimilarCampaigns up to its await
CmpLoadSimilarStart(v) ==
    IF v.primaryCampaign = Null
    THEN [v EXCEPT !.similarCampaigns = <<>>,
                   !.comparisonCampaign = Null]
    ELSE [v EXCEPT !.isLoadingSimilar = TRUE,
                   !.similarError = NullString,
                   !.comparisonCampaign = Null]

\* the requests the two effects issue
CmpCampaignsRequest(client) ==
    IF client = Null THEN <<>>
    ELSE <<Request("getCampaignsByClient", [client_id |-> client.client_id], NoClosure)>>

\* an effect that fires its fetch twice
CmpSimilarRequestTwice(primary) ==
    IF primary = Null THEN <<>>
    ELSE LET req == Request("getSimilarCampaigns",
                            [campaign_id |-> primary.campaign_id, duration_tolerance |-> 2],
                            NoClosure)
         IN  <<req, req>>

CmpSimilarRequest(primary) ==
    IF primary = Null THEN <<>>
    ELSE <<Request("getSimilarCampaigns",
                   [campaign_id |-> primary.campaign_id, duration_tolerance |-> 2],
                   NoClosure)>>

\* Header hands a new client to the view: the effect on [selectedClient]
\* runs, and the effect on [primaryCampaign] runs when that changed too
CmpSelectClient(c) ==
    /\ c # selectedClient
    /\ LET v1 == CmpLoadCampaignsStart(compare, c)
           primaryChanged == v1.primaryCampaign # compare.primaryCampaign
           v2 == IF primaryChanged THEN CmpLoadSimilarStart(v1) ELSE v1
           reqs == CmpCampaignsRequest(c)
       IN  /\ Len(inflight) + Len(reqs) <= MaxInFlight
           /\ selectedClient' = c
           /\ compare' = v2
           /\ inflight' = inflight \o reqs
    /\ UNCHANGED <<api, display, activeTab, roi, adv>>

\* primary dropdown onChange, then the effect on [primaryCampaign]
CmpSelectPrimary(p) ==
    /\ selectedClient # Null
    /\ ~compare.isLoadingCampaigns
    /\ p \in Range(compare.campaigns) \cup {Null}
    /\ p # compare.primaryCampaign
    /\ LET v1 == [compare EXCEPT !.primaryCampaign = p]
           reqs == CmpSimilarRequest(p)
       IN  /\ Len(inflight) + Len(reqs) <= MaxInFlight
           /\ compare' = CmpLoadSimilarStart(v1)
           /\ inflight' = inflight \o reqs
    /\ UNCHANGED <<api, display, activeTab, selectedClient, roi, adv>>

\* comparison dropdown onChange
CmpSelectComparison(q) ==
    /\ compare.primaryCampaign # Null
    /\ ~compare.isLoadingSimilar
    /\ q \in Range(compare.similarCampaigns) \cup {Null}
    /\ q # compare.comparisonCampaign
    /\ compare' = [compare EXCEPT !.comparisonCampaign = q]
    /\ UNCHANGED <<api, display, activeTab, selectedClient, roi, adv, inflight>>

\* handleAnalyze up to its await
HandleAnalyzeStart(v) ==
    IF v.primaryCampaign = Null \/ v.comparisonCampaign = Null
    THEN [v EXCEPT !.analysisError = "Please select both campaigns to compare"]
    ELSE [v EXCEPT !.isAnalyzing = TRUE, !.analysisError = NullString]

HandleAnalyzeRequest(v) ==
    IF v.primaryCampaign = Null \/ v.comparisonCampaign = Null THEN <<>>
    ELSE <<Request("compareCampaigns",
                   [campaign_ids |-> <<v.primaryCampaign.campaign_id,
                                       v.comparisonCampaign.campaign_id>>],
                   NoClosure)>>

\* Analyze button: disabled={!primaryCampaign || !comparisonCampaign || isAnalyzing}
CmpAnalyze ==
    /\ compare.primaryCampaign # Null
    /\ compare.comparisonCampaign # Null
    /\ ~compare.isAnalyzing
    /\ LET reqs == HandleAnalyzeRequest(compare)
       IN  /\ Len(inflight) + Len(reqs) <= MaxInFlight
           /\ compare' = HandleAnalyzeStart(compare)
           /\ inflight' = inflight \o reqs
    /\ UNCHANGED <<api, display, activeTab, selectedClient, roi, adv>>

\* handleAnalyze of components/CompareCampaigns.tsx, the file App imports:
\* the same handler, with a comparison_type in the request
HandleAnalyzeRequestPerformance(v) ==
    IF v.primaryCampaign = Null \/ v.comparisonCampaign = Null THEN <<>>
    ELSE <<Request("compareCampaigns",
                   [campaign_ids |-> <<v.primaryCampaign.campaign_id,
                                       v.comparisonCampaign.campaign_id>>,
                    comparison_type |-> "performance"],
                   NoClosure)>>

CmpAnalyzePerformance ==
    /\ compare.primaryCampaign # Null
    /\ compare.comparisonCampaign # Null
    /\ ~compare.isAnalyzing
    /\ LET reqs == HandleAnalyzeRequestPerformance(compare)
       IN  /\ Len(inflight) + Len(reqs) <= MaxInFlight
           /\ compare' = HandleAnalyzeStart(compare)
           /\ inflight' = inflight \o reqs
    /\ UNCHANGED <<api, display, activeTab, selectedClient, roi, adv>>

\* continuation of loadCampaigns / loadSimilarCampaigns / handleAnalyze
\* after the awaited call returned `data`
CmpOnFulfilled(v, req) ==
    CASE req.op = "getCampaignsByClient" ->
            [v EXCEPT !.campaigns = CampaignsOf(req.body.client_id),
                      !.isLoadingCampaigns = FALSE]
      [] req.op = "getSimilarCampaigns" ->
            [v EXCEPT !.similarCampaigns = SimilarOf(req.body.campaign_id),
                      !.isLoadingSimilar = FALSE]
      [] req.op = "compareCampaigns" ->
            [v EXCEPT !.compareResult = CompareOf(req.body.campaign_ids),
                      !.isAnalyzing = FALSE]

\* a catch without the finally block: the loading flag stays up
CmpOnRejectedKeepsLoading(v, req, error) ==
    CASE req.op = "getCampaignsByClient" ->
            [v EXCEPT !.campaignError = APIErrorMessage(error, "Failed to load campaigns"),
                      !.campaigns = <<>>]
      [] req.op = "getSimilarCampaigns" ->
            [v EXCEPT !.similarError = APIErrorMessage(error, "Failed to load similar campaigns"),
                      !.similarCampaigns = <<>>]
      [] req.op = "compareCampaigns" ->
            [v EXCEPT !.analysisError = APIErrorMessage(error, "Failed to analyze campaigns")]

\* the catch and finally blocks after the awaited call threw `error`
CmpOnRejected(v, req, error) ==
    CASE req.op = "getCampaignsByClient" ->
            [v EXCEPT !.campaignError = APIErrorMessage(error, "Failed to load campaigns"),
                      !.campaigns = <<>>,
                      !.isLoadingCampaigns = FALSE]
      [] req.op = "getSimilarCampaigns" ->
            [v EXCEPT !.similarError = APIErrorMessage(error, "Failed to load similar campaigns"),
                      !.similarCampaigns = <<>>,
                      !.isLoadingSimilar = FALSE]
      [] req.op = "compareCampaigns" ->
            [v EXCEPT !.analysisError = APIErrorMessage(error, "Failed to analyze campaigns"),
                      !.isAnalyzing = FALSE]

\* the backend answers the i-th pending call, in any order
CmpResolve(i) ==
    /\ i \in 1..Len(inflight)
    /\ compare' = CmpOnFulfilled(compare, inflight[i])
    /\ inflight' = RemoveAt(inflight, i)
    /\ UNCHANGED <<api, display, activeTab, selectedClient, roi, adv>>

CmpReject(i, error) ==
    /\ i \in 1..Len(inflight)
    /\ compare' = CmpOnRejected(compare, inflight[i], error)
    /\ inflight' = RemoveAt(inflight, i)
    /\ UNCHANGED <<api, display, activeTab, selectedClient, roi, adv>>

\* what can happen while App renders CompareCampaigns
CompareNext ==
    /\ activeTab = "compare"
    /\ \/ \E c \in Clients \cup {Null} : CmpSelectClient(c)
       \/ \E p \in AllCampaigns \cup {Null} : CmpSelectPrimary(p)
       \/ \E q \in AllCampaigns \cup {Null} : CmpSelectComparison(q)
       \/ CmpAnalyze
       \/ CmpAnalyzePerformance
       \/ \E i \in 1..Len(inflight) : CmpResolve(i)
       \/ \E i \in 1..Len(inflight), e \in APIErrors : CmpReject(i, e)

(***************************************************************************)
(* Text fields: strings are sequences of one-character strings             *)
(***************************************************************************)
Digits == <<"0", "1", "2", "3", "4", "5", "6", "7", "8", "9">>

IsDigit(ch) == \E d \in 1..10 : Digits[d] = ch

DigitValue(ch) == (CHOOSE d \in 1..10 : Digits[d] = ch) - 1

RECURSIVE DigitPrefixValue(_, _)
DigitPrefixValue(s, acc) ==
    IF s # <<>> /\ IsDigit(Head(s))
    THEN DigitPrefixValue(Tail(s), acc * 10 + DigitValue(Head(s)))
    ELSE acc

NaN == [isNaN |-> TRUE, value |-> 0]

\* parseFloat on integer text: optional sign, then the longest digit prefix;
\* NaN when there is no digit
ParseFloat(s) ==
    LET negative == s # <<>> /\ Head(s) = "-"
        signed == s # <<>> /\ Head(s) \in {"-", "+"}
        rest == IF signed THEN Tail(s) ELSE s
    IN  IF rest = <<>> \/ ~IsDigit(Head(rest)) THEN NaN
        ELSE [isNaN |-> FALSE,
              value |-> IF negative THEN 0 - DigitPrefixValue(rest, 0)
                        ELSE DigitPrefixValue(rest, 0)]

\* parseFloat(text) || 0
ParseFloatOrZero(s) ==
    IF ParseFloat(s).isNaN THEN 0 ELSE ParseFloat(s).value

RECURSIVE NatToString(_)
NatToString(n) ==
    IF n < 10 THEN <<Digits[n + 1]>>
    ELSE NatToString(n \div 10) \o <<Digits[(n % 10) + 1]>>

\* Number.prototype.toString on an integer
NumberToString(n) == IF n < 0 THEN <<"-">> \o NatToString(0 - n) ELSE NatToString(n)

RECURSIVE TrimStart(_)
TrimStart(s) ==
    IF s # <<>> /\ Head(s) = " " THEN TrimStart(Tail(s)) ELSE s

RECURSIVE TrimEnd(_)
TrimEnd(s) ==
    IF s # <<>> /\ s[Len(s)] = " " THEN TrimEnd(SubSeq(s, 1, Len(s) - 1)) ELSE s

\* String.prototype.trim
Trim(s) == TrimEnd(TrimStart(s))

\* an object literal field that JSON.stringify keeps only when it is defined
OptField(present, key, value) == IF present THEN key :> value ELSE <<>>

(***************************************************************************)
(* EnhancedROI                                                             *)
(***************************************************************************)
\* what the user can type into a cost field
CostInputs == {<<>>, <<"0">>, <<"5">>, <<"-", "5">>}

\* what the user can type into the revenue text area
PastedInputs == {<<>>, <<" ">>, <<"r">>}

TenMB == 10 * 1024 * 1024

\* files the user can pick or drop
Files == {[name |-> "empty.csv", size |-> 0],
          [name |-> "sales.csv", size |-> 2048],
          [name |-> "huge.csv", size |-> TenMB + 1]}

\* POST /calculate-roi and /calculate-roi-file answers
ROIResponses == {[total_cost |-> 5, data_source |-> "csv_parsed"],
                 [total_cost |-> 0, data_source |-> "insufficient_data"]}

ROIInit ==
    [campaignCost |-> <<>>,
     pastedData |-> <<>>,
     selectedFile |-> Null,
     roiResult |-> Null,
     calculationError |-> NullString,
     isParsing |-> FALSE,
     pasteError |-> NullString,
     isProcessingFile |-> FALSE,
     fileProcessingError |-> NullString,
     campaigns |-> <<>>,
     selectedCampaign |-> Null,
     isLoadingCampaigns |-> FALSE,
     campaignError |-> NullString]

\* error instanceof Error ? error.message : fallback
ErrorMessage(error, fallback) ==
    IF error.name \in {"Error", "APIError"} THEN error.message ELSE fallback

\* PasteROIRequestBody with the cost test off by one: a cost of 0 is sent
PasteROIRequestBodyCostGeqZero(pastedText, campaignCost, selectedCampaign) ==
    LET cost == ParseFloatOrZero(campaignCost)
    IN  [uploaded_data |-> pastedText, data_format |-> "text"]
        @@ OptField(selectedCampaign # Null, "campaign_id",
                    IF selectedCampaign # Null THEN selectedCampaign.campaign_id ELSE 0)
        @@ OptField(cost >= 0, "campaign_cost", cost)

\* the ROIRequest object literal of handlePasteDataProcessing, as serialised
PasteROIRequestBody(pastedText, campaignCost, selectedCampaign) ==
    LET cost == ParseFloatOrZero(campaignCost)
    IN  [uploaded_data |-> pastedText, data_format |-> "text"]
        @@ OptField(selectedCampaign # Null, "campaign_id",
                    IF selectedCampaign # Null THEN selectedCampaign.campaign_id ELSE 0)
        @@ OptField(cost > 0, "campaign_cost", cost)

\* handlePasteDataProcessing up to its await
HandlePasteDataProcessingStart(v, pastedText) ==
    IF Trim(pastedText) = <<>> THEN v
    ELSE [v EXCEPT !.isParsing = TRUE, !.pasteError = NullString]

HandlePasteDataProcessingRequest(v, pastedText) ==
    IF Trim(pastedText) = <<>> THEN <<>>
    ELSE <<Request("calculateROI",
                   PasteROIRequestBody(pastedText, v.campaignCost, v.selectedCampaign),
                   [cost |-> ParseFloatOrZero(v.campaignCost)])>>

\* the validation at the top of handleFileProcessing
FileValidationError(file) ==
    IF file = Null THEN "No file selected"
    ELSE IF file.size = 0 THEN "File appears to be empty"
    ELSE IF file.size > TenMB THEN "File size too large (max 10MB)"
    ELSE NullString

\* the form data calculateROIWithFile builds
FileROIRequestBody(file, campaignCost, selectedCampaign) ==
    LET cost == ParseFloatOrZero(campaignCost)
    IN  [file |-> file.name]
        @@ OptField(cost # 0, "campaign_cost", NumberToString(cost))
        @@ OptField(selectedCampaign # Null, "campaign_id",
                    IF selectedCampaign # Null
                    THEN NumberToString(selectedCampaign.campaign_id) ELSE <<>>)

\* handleFileProcessing up to its await, or through catch and finally when
\* the validation throws
HandleFileProcessingStart(v, file) ==
    IF FileValidationError(file) # NullString
    THEN [v EXCEPT !.isProcessingFile = FALSE,
                   !.fileProcessingError = FileValidationError(file)]
    ELSE [v EXCEPT !.isProcessingFile = TRUE,
                   !.fileProcessingError = NullString]

HandleFileProcessingRequest(v, file) ==
    IF FileValidationError(file) # NullString THEN <<>>
    ELSE <<Request("calculateROIWithFile",
                   FileROIRequestBody(file, v.campaignCost, v.selectedCampaign),
                   NoClosure)>>

\* loadCampaigns up to its await, or the else branch of the effect
RoiClientEffect(v, client) ==
    IF client # Null
    THEN [v EXCEPT !.isLoadingCampaigns = TRUE, !.campaignError = NullString]
    ELSE [v EXCEPT !.campaigns = <<>>,
                   !.selectedCampaign = Null,
                   !.campaignError = NullString]

\* the effect on [selectedClient]
RoiSelectClient(c) ==
    /\ c # selectedClient
    /\ LET reqs == CmpCampaignsRequest(c)
       IN  /\ Len(inflight) + Len(reqs) <= MaxInFlight
           /\ selectedClient' = c
           /\ roi' = RoiClientEffect(roi, c)
           /\ inflight' = inflight \o reqs
    /\ UNCHANGED <<api, display, activeTab, compare, adv>>

\* campaign dropdown onChange
RoiSelectCampaign(x) ==
    /\ selectedClient # Null
    /\ ~roi.isLoadingCampaigns
    /\ x \in Range(roi.campaigns) \cup {Null}
    /\ x # roi.selectedCampaign
    /\ roi' = [roi EXCEPT !.selectedCampaign = x]
    /\ UNCHANGED <<api, display, activeTab, selectedClient, compare, adv, inflight>>

\* cost input onChange
RoiSetCampaignCost(s) ==
    /\ s # roi.campaignCost
    /\ roi' = [roi EXCEPT !.campaignCost = s]
    /\ UNCHANGED <<api, display, activeTab, selectedClient, compare, adv, inflight>>

\* text area onChange
RoiSetPastedData(t) ==
    /\ ~(roi.isParsing \/ roi.isProcessingFile)
    /\ t # roi.pastedData
    /\ roi' = [roi EXCEPT !.pastedData = t]
    /\ UNCHANGED <<api, display, activeTab, selectedClient, compare, adv, inflight>>

\* the body of handleFileUpload and of handleDrop
FileChosen(v, file) ==
    [v EXCEPT !.selectedFile = file,
              !.fileProcessingError = NullString,
              !.calculationError = NullString,
              !.pastedData = <<>>]

\* file input onChange
RoiHandleFileUpload(f) ==
    /\ ~(roi.isProcessingFile \/ roi.isParsing)
    /\ roi' = FileChosen(roi, f)
    /\ UNCHANGED <<api, display, activeTab, selectedClient, compare, adv, inflight>>

\* drop zone onDrop
RoiHandleDrop(f) ==
    /\ roi' = FileChosen(roi, f)
    /\ UNCHANGED <<api, display, activeTab, selectedClient, compare, adv, inflight>>

\* which branch the Calculate ROI button's onClick takes
CalculateBranch(v) ==
    LET cost == ParseFloatOrZero(v.campaignCost)
    IN  IF v.selectedFile # Null /\ ~v.isProcessingFile THEN "file"
        ELSE IF Trim(v.pastedData) # <<>> /\ cost > 0 THEN "paste_with_cost"
        ELSE IF Trim(v.pastedData) # <<>> /\ cost = 0 THEN "paste_text_only"
        ELSE IF cost > 0 THEN "missing_revenue"
        ELSE "no_input"

MissingRevenueMessage ==
    "Please paste revenue data in the text area or upload a file with revenue data."

NoInputMessage ==
    "Please enter campaign cost and paste revenue data OR upload a file with revenue data."

CalculateStart(v) ==
    CASE CalculateBranch(v) = "file" -> HandleFileProcessingStart(v, v.selectedFile)
      [] CalculateBranch(v) \in {"paste_with_cost", "paste_text_only"} ->
            HandlePasteDataProcessingStart(v, v.pastedData)
      [] CalculateBranch(v) = "missing_revenue" ->
            [v EXCEPT !.calculationError = MissingRevenueMessage]
      [] OTHER -> [v EXCEPT !.calculationError = NoInputMessage]

CalculateRequest(v) ==
    CASE CalculateBranch(v) = "file" -> HandleFileProcessingRequest(v, v.selectedFile)
      [] CalculateBranch(v) \in {"paste_with_cost", "paste_text_only"} ->
            HandlePasteDataProcessingRequest(v, v.pastedData)
      [] OTHER -> <<>>

\* Calculate ROI button: disabled={isParsing || isProcessingFile}
RoiCalculate ==
    /\ ~(roi.isParsing \/ roi.isProcessingFile)
    /\ LET reqs == CalculateRequest(roi)
       IN  /\ Len(inflight) + Len(reqs) <= MaxInFlight
           /\ roi' = CalculateStart(roi)
           /\ inflight' = inflight \o reqs
    /\ UNCHANGED <<api, display, activeTab, selectedClient, compare, adv>>

\* continuation after the awaited call returned
RoiOnFulfilled(v, req, result) ==
    CASE req.op = "getCampaignsByClient" ->
            [v EXCEPT !.campaigns = CampaignsOf(req.body.client_id),
                      !.isLoadingCampaigns = FALSE]
      [] req.op = "calculateROI" ->
            [v EXCEPT !.roiResult = result,
                      !.campaignCost =
                          IF result.total_cost # 0 /\ result.total_cost # req.closure.cost
                          THEN NumberToString(result.total_cost) ELSE @,
                      !.isParsing = FALSE]
      [] req.op = "calculateROIWithFile" ->
            [v EXCEPT !.roiResult = result,
                      !.campaignCost =
                          IF result.total_cost # 0
                          THEN NumberToString(result.total_cost) ELSE @,
                      !.isProcessingFile = FALSE]

\* catch and finally after the awaited call threw
RoiOnRejected(v, req, error) ==
    CASE req.op = "getCampaignsByClient" ->
            [v EXCEPT !.campaignError = ErrorMessage(error, "Failed to load campaigns"),
                      !.campaigns = <<>>,
                      !.isLoadingCampaigns = FALSE]
      [] req.op = "calculateROI" ->
            [v EXCEPT !.pasteError = ErrorMessage(error, "Could not parse revenue data"),
                      !.isParsing = FALSE]
      [] req.op = "calculateROIWithFile" ->
            [v EXCEPT !.fileProcessingError = ErrorMessage(error, "Failed to process file"),
                      !.isProcessingFile = FALSE]

RoiResolve(i, result) ==
    /\ i \in 1..Len(inflight)
    /\ roi' = RoiOnFulfilled(roi, inflight[i], result)
    /\ inflight' = RemoveAt(inflight, i)
    /\ UNCHANGED <<api, display, activeTab, selectedClient, compare, adv>>

RoiReject(i, error) ==
    /\ i \in 1..Len(inflight)
    /\ roi' = RoiOnRejected(roi, inflight[i], error)
    /\ inflight' = RemoveAt(inflight, i)
    /\ UNCHANGED <<api, display, activeTab, selectedClient, compare, adv>>

\* the "Data Source:" line of the results panel, as label and accuracy
DataSourceText(roiResult) ==
    IF roiResult.data_source = "manual_input"
    THEN [label |-> "Manual Input", accuracy |-> "High Accuracy"]
    ELSE IF roiResult.data_source = "csv_parsed"
    THEN [label |-> "AI Parsed Text", accuracy |-> "Medium-High Accuracy"]
    ELSE [label |-> "Manual Input", accuracy |-> "High Accuracy"]

\* what can happen while App renders EnhancedROI
ROINext ==
    /\ activeTab = "roi"
    /\ \/ \E c \in Clients \cup {Null} : RoiSelectClient(c)
       \/ \E x \in AllCampaigns \cup {Null} : RoiSelectCampaign(x)
       \/ \E s \in CostInputs : RoiSetCampaignCost(s)
       \/ \E t \in PastedInputs : RoiSetPastedData(t)
       \/ \E f \in Files : RoiHandleFileUpload(f)
       \/ \E f \in Files : RoiHandleDrop(f)
       \/ RoiCalculate
       \/ \E i \in 1..Len(inflight), r \in ROIResponses : RoiResolve(i, r)
       \/ \E i \in 1..Len(inflight), e \in APIErrors : RoiReject(i, e)

(***************************************************************************)
(* Feature flags                                                           *)
(***************************************************************************)
FEATURE_FLAGS == [SIMPLE_ROI |-> TRUE, CAMPAIGN_MATCHED_ROI |-> FALSE]

isFeatureEnabled(feature) == FEATURE_FLAGS[feature]

(***************************************************************************)
(* AdvancedROI                                                             *)
(***************************************************************************)
\* what the user can type into the campaign cost field
AmountInputs == {<<>>, <<"5">>, <<"-", "5">>}

\* what the user can type into the revenue field
RevenueInputs == {<<>>, <<"9">>}

\* what the user can type into the optional cost fields
OptionalAmountInputs == {<<>>, <<"0">>}

\* what the user can type into the campaign-matched cost field
MatchedCostInputs == {<<>>, <<"5">>}

SalesFiles == {[name |-> "sales.csv", size |-> 2048]}

AdvInit ==
    [calculatorMode |-> "simple",
     campaignCost |-> <<>>,
     costOfGoods |-> <<>>,
     additionalCosts |-> <<>>,
     simpleRevenue |-> <<>>,
     matchedCampaignCost |-> <<>>,
     selectedCampaign |-> Null,
     salesDataFile |-> Null,
     campaigns |-> <<>>,
     isLoadingCampaigns |-> FALSE,
     campaignError |-> NullString,
     simpleResults |-> Null,
     campaignResults |-> Null,
     isCalculating |-> FALSE,
     calculationError |-> NullString]

\* isCampaignMatchedEnabled reading the wrong flag
isCampaignMatchedEnabledWrongFlag == isFeatureEnabled("SIMPLE_ROI")

isCampaignMatchedEnabled == isFeatureEnabled("CAMPAIGN_MATCHED_ROI")

ComingSoonMessage ==
    "Campaign-matched ROI analysis is coming soon! This advanced feature is currently in development."

\* POST /advanced-roi/simple
AdvSimpleResponse(body) ==
    LET total == body.campaign_cost + body.cost_of_goods + body.additional_costs
    IN  [total_cost |-> total,
         total_revenue |-> body.revenue,
         profit |-> body.revenue - total,
         roi_percentage |-> ((body.revenue - total) * 100) \div total]

\* loadCampaigns up to its await
AdvLoadCampaignsStart(v, client) ==
    IF client = Null
    THEN [v EXCEPT !.campaigns = <<>>, !.selectedCampaign = Null]
    ELSE [v EXCEPT !.isLoadingCampaigns = TRUE,
                   !.campaignError = NullString,
                   !.selectedCampaign = Null]

\* the effect on [selectedClient]
AdvSelectClient(c) ==
    /\ c # selectedClient
    /\ LET reqs == CmpCampaignsRequest(c)
       IN  /\ Len(inflight) + Len(reqs) <= MaxInFlight
           /\ selectedClient' = c
           /\ adv' = AdvLoadCampaignsStart(adv, c)
           /\ inflight' = inflight \o reqs
    /\ UNCHANGED <<api, display, activeTab, compare, roi>>

\* campaign dropdown onChange (one dropdown in each calculator)
AdvSelectCampaign(x) ==
    /\ selectedClient # Null
    /\ ~adv.isLoadingCampaigns
    /\ x \in Range(adv.campaigns) \cup {Null}
    /\ x # adv.selectedCampaign
    /\ adv' = [adv EXCEPT !.selectedCampaign = x]
    /\ UNCHANGED <<api, display, activeTab, selectedClient, compare, roi, inflight>>

\* the two calculator type buttons
AdvSetMode(mode) ==
    /\ adv' = IF mode = "simple"
              THEN [adv EXCEPT !.calculatorMode = "simple",
                               !.simpleResults = Null,
                               !.calculationError = NullString]
              ELSE [adv EXCEPT !.calculatorMode = "campaign-matched",
                               !.campaignResults = Null,
                               !.calculationError = NullString]
    /\ UNCHANGED <<api, display, activeTab, selectedClient, compare, roi, inflight>>

\* the four number inputs of the simple calculator
AdvSetSimpleInput(field, s) ==
    /\ adv.calculatorMode = "simple"
    /\ s # adv[field]
    /\ adv' = [adv EXCEPT ![field] = s]
    /\ UNCHANGED <<api, display, activeTab, selectedClient, compare, roi, inflight>>

\* cost input of the campaign-matched calculator
AdvSetMatchedCampaignCost(s) ==
    /\ adv.calculatorMode = "campaign-matched"
    /\ s # adv.matchedCampaignCost
    /\ adv' = [adv EXCEPT !.matchedCampaignCost = s]
    /\ UNCHANGED <<api, display, activeTab, selectedClient, compare, roi, inflight>>

\* handleFileUpload / handleDrop of the campaign-matched calculator
AdvHandleFileUpload(f) ==
    /\ adv.calculatorMode = "campaign-matched"
    /\ adv' = [adv EXCEPT !.salesDataFile = f, !.calculationError = NullString]
    /\ UNCHANGED <<api, display, activeTab, selectedClient, compare, roi, inflight>>

\* SimpleInputsValid with the tests off by one: amounts of 0 pass
SimpleInputsValidZeroPasses(v) ==
    /\ ParseFloatOrZero(v.campaignCost) >= 0
    /\ ParseFloatOrZero(v.simpleRevenue) >= 0

\* the negation of `campaign <= 0 || revenue <= 0`
SimpleInputsValid(v) ==
    /\ ParseFloatOrZero(v.campaignCost) > 0
    /\ ParseFloatOrZero(v.simpleRevenue) > 0

SimpleValidationMessage == "Please enter valid campaign cost and revenue amounts"

\* calculateSimpleROI up to its await
CalculateSimpleROIStart(v) ==
    IF ~SimpleInputsValid(v)
    THEN [v EXCEPT !.calculationError = SimpleValidationMessage]
    ELSE [v EXCEPT !.isCalculating = TRUE, !.calculationError = NullString]

CalculateSimpleROIRequest(v) ==
    IF ~SimpleInputsValid(v) THEN <<>>
    ELSE <<Request("calculateAdvancedROISimple",
                   [campaign_cost |-> ParseFloatOrZero(v.campaignCost),
                    revenue |-> ParseFloatOrZero(v.simpleRevenue),
                    cost_of_goods |-> ParseFloatOrZero(v.costOfGoods),
                    additional_costs |-> ParseFloatOrZero(v.additionalCosts),
                    calculation_type |-> "simple"],
                   [campaign |-> ParseFloatOrZero(v.campaignCost),
                    goods |-> ParseFloatOrZero(v.costOfGoods),
                    additional |-> ParseFloatOrZero(v.additionalCosts)])>>

\* Calculate Simple ROI button (never disabled)
AdvCalculateSimpleROI ==
    /\ adv.calculatorMode = "simple"
    /\ LET reqs == CalculateSimpleROIRequest(adv)
       IN  /\ Len(inflight) + Len(reqs) <= MaxInFlight
           /\ adv' = CalculateSimpleROIStart(adv)
           /\ inflight' = inflight \o reqs
    /\ UNCHANGED <<api, display, activeTab, selectedClient, compare, roi>>

MatchedInputsMissing(v) ==
    v.selectedCampaign = Null \/ v.salesDataFile = Null \/ v.matchedCampaignCost = <<>>

\* calculateCampaignROI up to its await
CalculateCampaignROIStart(v) ==
    IF ~isCampaignMatchedEnabled
    THEN [v EXCEPT !.calculationError = ComingSoonMessage]
    ELSE IF MatchedInputsMissing(v)
    THEN [v EXCEPT !.calculationError =
                       "Please select a campaign, upload sales data, and enter campaign cost"]
    ELSE [v EXCEPT !.isCalculating = TRUE, !.calculationError = NullString]

CalculateCampaignROIRequest(v) ==
    IF ~isCampaignMatchedEnabled \/ MatchedInputsMissing(v) THEN <<>>
    ELSE <<Request("calculateAdvancedROICampaignMatched",
                   [campaign_id |-> NumberToString(v.selectedCampaign.campaign_id),
                    campaign_cost |-> IF ParseFloat(v.matchedCampaignCost).isNaN
                                      THEN <<"N", "a", "N">>
                                      ELSE NumberToString(ParseFloat(v.matchedCampaignCost).value),
                    sales_file |-> v.salesDataFile.name],
                   [selectedCampaign |-> v.selectedCampaign])>>

\* calculateCampaignROI is called: the function checks the feature flag
\* and its inputs itself, whatever the state of the button that calls it
AdvCalculateCampaignROI ==
    /\ adv.calculatorMode = "campaign-matched"
    /\ LET reqs == CalculateCampaignROIRequest(adv)
       IN  /\ Len(inflight) + Len(reqs) <= MaxInFlight
           /\ adv' = CalculateCampaignROIStart(adv)
           /\ inflight' = inflight \o reqs
    /\ UNCHANGED <<api, display, activeTab, selectedClient, compare, roi>>

\* continuation after the awaited call returned; hasMatched tells whether
\* the answer carries campaign_matched_results
AdvOnFulfilled(v, req, hasMatched) ==
    CASE req.op = "getCampaignsByClient" ->
            [v EXCEPT !.campaigns = CampaignsOf(req.body.client_id),
                      !.isLoadingCampaigns = FALSE]
      [] req.op = "calculateAdvancedROISimple" ->
            [v EXCEPT !.simpleResults =
                          [campaignCost |-> req.closure.campaign,
                           costOfGoods |-> req.closure.goods,
                           additionalCosts |-> req.closure.additional,
                           totalCost |-> AdvSimpleResponse(req.body).total_cost,
                           revenue |-> AdvSimpleResponse(req.body).total_revenue,
                           profit |-> AdvSimpleResponse(req.body).profit,
                           roiPercentage |-> AdvSimpleResponse(req.body).roi_percentage],
                      !.isCalculating = FALSE]
      [] req.op = "calculateAdvancedROICampaignMatched" ->
            IF hasMatched
            THEN [v EXCEPT !.campaignResults =
                               [campaign_id |-> req.closure.selectedCampaign.campaign_id],
                           !.isCalculating = FALSE]
            ELSE [v EXCEPT !.calculationError =
                               "No campaign matching results received from API",
                           !.isCalculating = FALSE]

\* catch and finally after the awaited call threw
AdvOnRejected(v, req, error) ==
    CASE req.op = "getCampaignsByClient" ->
            [v EXCEPT !.campaignError = ErrorMessage(error, "Failed to load campaigns"),
                      !.campaigns = <<>>,
                      !.isLoadingCampaigns = FALSE]
      [] req.op = "calculateAdvancedROISimple" ->
            [v EXCEPT !.calculationError = ErrorMessage(error, "Failed to calculate ROI"),
                      !.isCalculating = FALSE]
      [] req.op = "calculateAdvancedROICampaignMatched" ->
            [v EXCEPT !.calculationError =
                          ErrorMessage(error, "Failed to calculate campaign ROI"),
                      !.isCalculating = FALSE]

AdvResolve(i, hasMatched) ==
    /\ i \in 1..Len(inflight)
    /\ adv' = AdvOnFulfilled(adv, inflight[i], hasMatched)
    /\ inflight' = RemoveAt(inflight, i)
    /\ UNCHANGED <<api, display, activeTab, selectedClient, compare, roi>>

AdvReject(i, error) ==
    /\ i \in 1..Len(inflight)
    /\ adv' = AdvOnRejected(adv, inflight[i], error)
    /\ inflight' = RemoveAt(inflight, i)
    /\ UNCHANGED <<api, display, activeTab, selectedClient, compare, roi>>

\* what can happen while App renders AdvancedROI
AdvNext ==
    /\ activeTab = "advanced-roi"
    /\ \/ \E c \in Clients \cup {Null} : AdvSelectClient(c)
       \/ \E x \in AllCampaigns \cup {Null} : AdvSelectCampaign(x)
       \/ \E mode \in {"simple", "campaign-matched"} : AdvSetMode(mode)
       \/ \E s \in AmountInputs : AdvSetSimpleInput("campaignCost", s)
       \/ \E s \in RevenueInputs : AdvSetSimpleInput("simpleRevenue", s)
       \/ \E s \in OptionalAmountInputs : AdvSetSimpleInput("costOfGoods", s)
       \/ \E s \in OptionalAmountInputs : AdvSetSimpleInput("additionalCosts", s)
       \/ \E s \in MatchedCostInputs : AdvSetMatchedCampaignCost(s)
       \/ \E f \in SalesFiles : AdvHandleFileUpload(f)
       \/ AdvCalculateSimpleROI
       \/ AdvCalculateCampaignROI
       \/ \E i \in 1..Len(inflight), m \in BOOLEAN : AdvResolve(i, m)
       \/ \E i \in 1..Len(inflight), e \in APIErrors : AdvReject(i, e)

(***************************************************************************)
(* apiService: handleResponse and the endpoint bindings                    *)
(*                                                                         *)
(* A JavaScript string is a sequence of pieces, so that a template literal *)
(* is the concatenation of its parts and '' is the empty sequence.         *)
(***************************************************************************)
\* JavaScript values a JSON body parses to
JString(s) == [kind |-> "string", str |-> s, fields |-> <<>>]

JNull == [kind |-> "null", str |-> <<>>, fields |-> <<>>]

JUndefined == [kind |-> "undefined", str |-> <<>>, fields |-> <<>>]

\* an array holding one object
JObjectArray == [kind |-> "array", str |-> <<>>, fields |-> <<>>]

JObject(fields) == [kind |-> "object", str |-> <<>>, fields |-> fields]

JNumber(n) == [kind |-> "number", str |-> <<>>, fields |-> <<>>, num |-> n]

\* the bodies a backend response can carry
Bodies ==
    {"{\"detail\":\"X\"}",
     "{\"detail\":\"X\",\"message\":\"M\"}",
     "{\"message\":\"M\"}",
     "{\"detail\":\"\",\"message\":\"M\"}",
     "{\"detail\":\"\"}",
     "{\"detail\":null,\"message\":\"\"}",
     "{\"detail\":[{\"msg\":\"field required\"}]}",
     "{\"status\":\"ok\"}",
     "{}",
     "null",
     "<html>Bad Gateway</html>",
     ""}

SyntaxError == [name |-> "SyntaxError", isError |-> TRUE,
                message |-> <<"Unexpected token in JSON">>]

\* JSON.parse / Response.json on the bodies above
JSONParse(text) ==
    CASE text = "{\"detail\":\"X\"}" ->
            [ok |-> TRUE, value |-> JObject("detail" :> JString(<<"X">>))]
      [] text = "{\"detail\":\"X\",\"message\":\"M\"}" ->
            [ok |-> TRUE,
             value |-> JObject("detail" :> JString(<<"X">>) @@ "message" :> JString(<<"M">>))]
      [] text = "{\"message\":\"M\"}" ->
            [ok |-> TRUE, value |-> JObject("message" :> JString(<<"M">>))]
      [] text = "{\"detail\":\"\",\"message\":\"M\"}" ->
            [ok |-> TRUE,
             value |-> JObject("detail" :> JString(<<>>) @@ "message" :> JString(<<"M">>))]
      [] text = "{\"detail\":\"\"}" ->
            [ok |-> TRUE, value |-> JObject("detail" :> JString(<<>>))]
      [] text = "{\"detail\":null,\"message\":\"\"}" ->
            [ok |-> TRUE,
             value |-> JObject("detail" :> JNull @@ "message" :> JString(<<>>))]
      [] text = "{\"detail\":[{\"msg\":\"field required\"}]}" ->
            [ok |-> TRUE, value |-> JObject("detail" :> JObjectArray)]
      [] text = "{\"status\":\"ok\"}" ->
            [ok |-> TRUE, value |-> JObject("status" :> JString(<<"ok">>))]
      [] text = "{}" -> [ok |-> TRUE, value |-> JObject(<<>>)]
      [] text = "null" -> [ok |-> TRUE, value |-> JNull]
      [] OTHER -> [ok |-> FALSE, value |-> JUndefined]

\* value.key, for a value that is neither null nor undefined
Get(value, key) ==
    IF value.kind = "object" /\ key \in DOMAIN value.fields
    THEN value.fields[key] ELSE JUndefined

\* what `||` takes for true
Truthy(value) ==
    CASE value.kind = "string" -> value.str # <<>>
      [] value.kind = "number" -> value.num # 0
      [] value.kind \in {"null", "undefined"} -> FALSE
      [] OTHER -> TRUE

\* String(value), as the Error constructor applies it to its message
JSToString(value) ==
    CASE value.kind = "string" -> value.str
      [] value.kind = "null" -> <<"null">>
      [] value.kind = "undefined" -> <<"undefined">>
      [] OTHER -> <<"[object Object]">>

\* new APIError(message, status, response) and new APIError(message)
APIError(message, status, response) ==
    [name |-> "APIError", isError |-> TRUE, message |-> message,
     status |-> status, response |-> response]

APIErrorWithoutStatus(message) ==
    [name |-> "APIError", isError |-> TRUE, message |-> message]

\* how an async function settles
Return(value) == [kind |-> "return", value |-> value]

Throw(error) == [kind |-> "throw", error |-> error]

StatusTexts == (200 :> "OK") @@ (404 :> "Not Found") @@ (500 :> "Internal Server Error")

\* the responses fetch can resolve with
Responses ==
    {[status |-> st, statusText |-> StatusTexts[st], body |-> b] :
        st \in DOMAIN StatusTexts, b \in Bodies}

\* Response.ok
Ok(response) == response.status \in 200..299

\* `HTTP ${response.status}: ${response.statusText}`
DefaultErrorMessage(response) ==
    <<"HTTP ">> \o NumberToString(response.status) \o <<": ", response.statusText>>

\* ResponseErrorMessage taking message before detail
ResponseErrorMessageMessageFirst(response) ==
    LET errorData == JSONParse(response.body)
    IN  IF ~errorData.ok \/ errorData.value.kind \in {"null", "undefined"}
        THEN DefaultErrorMessage(response)
        ELSE IF Truthy(Get(errorData.value, "message"))
        THEN JSToString(Get(errorData.value, "message"))
        ELSE IF Truthy(Get(errorData.value, "detail"))
        THEN JSToString(Get(errorData.value, "detail"))
        ELSE DefaultErrorMessage(response)

\* errorMessage of handleResponse, as the APIError it is passed to keeps it:
\* errorData.detail || errorData.message || errorMessage, and the default
\* when JSON.parse or the property access throws
ResponseErrorMessage(response) ==
    LET errorData == JSONParse(response.body)
    IN  IF ~errorData.ok \/ errorData.value.kind \in {"null", "undefined"}
        THEN DefaultErrorMessage(response)
        ELSE IF Truthy(Get(errorData.value, "detail"))
        THEN JSToString(Get(errorData.value, "detail"))
        ELSE IF Truthy(Get(errorData.value, "message"))
        THEN JSToString(Get(errorData.value, "message"))
        ELSE DefaultErrorMessage(response)

handleResponse(response) ==
    IF ~Ok(response)
    THEN Throw(APIError(ResponseErrorMessage(response), response.status, response.body))
    ELSE IF JSONParse(response.body).ok
    THEN Return(JSONParse(response.body).value)
    ELSE Throw(SyntaxError)

\* the endpoint bindings of apiService
Operations ==
    {"getClients", "getCampaignsByClient", "getSimilarCampaigns", "compareCampaigns",
     "benchmarkCampaign", "calculateROI", "calculateROIWithFile",
     "calculateAdvancedROISimple", "calculateAdvancedROICampaignMatched",
     "healthCheck"}

\* the ids the two bindings that take one put into their messages
OperationIds(op) ==
    CASE op = "getCampaignsByClient" -> {c.client_id : c \in Clients}
      [] op = "getSimilarCampaigns" -> {11}
      [] OTHER -> {0}

\* the part of each binding's failure message before the colon
FailurePrefix(op, id) ==
    CASE op = "getClients" -> <<"Failed to ", "fetch clients">>
      [] op = "getCampaignsByClient" ->
            <<"Failed to ", "fetch campaigns for client ">> \o NumberToString(id)
      [] op = "getSimilarCampaigns" ->
            <<"Failed to ", "fetch similar campaigns for ">> \o NumberToString(id)
      [] op = "compareCampaigns" -> <<"Failed to ", "compare campaigns">>
      [] op = "benchmarkCampaign" -> <<"Failed to ", "benchmark campaign">>
      [] op = "calculateROI" -> <<"Failed to ", "calculate ROI">>
      [] op = "calculateROIWithFile" -> <<"Failed to ", "calculate ROI from file">>
      [] op = "calculateAdvancedROISimple" -> <<"Failed to ", "calculate Advanced ROI">>
      [] op = "calculateAdvancedROICampaignMatched" ->
            <<"Failed to ", "calculate campaign-matched ROI">>
      [] op = "healthCheck" -> <<"API health check failed">>

\* `${prefix}: ${error instanceof Error ? error.message : 'Network error'}`
FailureMessage(op, id, error) ==
    FailurePrefix(op, id) \o <<": ">>
        \o (IF error.isError THEN error.message ELSE <<"Network error">>)

\* the catch block of a binding: every binding but healthCheck rethrows an
\* APIError as it is
Catch(op, id, error) ==
    IF op # "healthCheck" /\ error.name = "APIError"
    THEN Throw(error)
    ELSE Throw(APIErrorWithoutStatus(FailureMessage(op, id, error)))

\* what fetch can reject with: an Error, or a value that is not an Error
Rejections ==
    {[name |-> "TypeError", isError |-> TRUE, message |-> <<"Failed to fetch">>],
     [name |-> "", isError |-> FALSE, message |-> <<>>]}

\* window.location of the pages the bundle can be served on
Locations ==
    {[hostname |-> "localhost", origin |-> <<"http://localhost:5173">>],
     [hostname |-> "127.0.0.1", origin |-> <<"http://127.0.0.1:5173">>],
     [hostname |-> "app.example.com", origin |-> <<"https://app.example.com">>],
     [hostname |-> "localhost.example.com",
      origin |-> <<"https://localhost.example.com">>]}

\* a check that knows the name localhost only
getAPIBaseURLLocalhostOnly(location) ==
    IF location.hostname = "localhost"
    THEN <<"http://localhost:8000", "/api/v1">>
    ELSE location.origin \o <<"/api/v1">>

getAPIBaseURL(location) ==
    LET isLocalhost == location.hostname = "localhost" \/ location.hostname = "127.0.0.1"
    IN  IF isLocalhost
        THEN <<"http://localhost:8000", "/api/v1">>
        ELSE location.origin \o <<"/api/v1">>

\* String.prototype.replace(piece, ''): the first occurrence is dropped
RECURSIVE ReplaceFirst(_, _)
ReplaceFirst(s, piece) ==
    IF s = <<>> THEN <<>>
    ELSE IF Head(s) = piece THEN Tail(s)
    ELSE <<Head(s)>> \o ReplaceFirst(Tail(s), piece)

\* the URL each binding hands to fetch
RequestURL(op, id, base) ==
    CASE op = "getClients" -> base \o <<"/clients">>
      [] op = "getCampaignsByClient" ->
            base \o <<"/campaigns/by-client/">> \o NumberToString(id)
      [] op = "getSimilarCampaigns" ->
            base \o <<"/campaigns/">> \o NumberToString(id)
                 \o <<"/similar-duration?duration_tolerance=">> \o NumberToString(2)
      [] op = "compareCampaigns" -> base \o <<"/compare">>
      [] op = "benchmarkCampaign" -> base \o <<"/industry-benchmark">>
      [] op = "calculateROI" -> base \o <<"/calculate-roi">>
      [] op = "calculateROIWithFile" -> base \o <<"/calculate-roi-file">>
      [] op = "calculateAdvancedROISimple" -> base \o <<"/advanced-roi/simple">>
      [] op = "calculateAdvancedROICampaignMatched" ->
            base \o <<"/advanced-roi/campaign-matched">>
      [] op = "healthCheck" -> ReplaceFirst(base, "/api/v1") \o <<"/health">>

\* before the module is evaluated
APIInit == [stage |-> "unloaded"]

\* the page loads the module: `const API_BASE_URL = getAPIBaseURL()`
LoadModule(location) ==
    /\ api.stage = "unloaded"
    /\ api' = [stage |-> "idle", location |-> location,
               API_BASE_URL |-> getAPIBaseURL(location)]
    /\ UNCHANGED <<display, activeTab, selectedClient, compare, roi, adv, inflight>>

\* a caller invokes a binding, which awaits fetch
ApiCall(op, id) ==
    /\ api.stage \in {"idle", "settled"}
    /\ api' = [stage |-> "fetching", location |-> api.location,
               API_BASE_URL |-> api.API_BASE_URL,
               op |-> op, id |-> id, url |-> RequestURL(op, id, api.API_BASE_URL)]
    /\ UNCHANGED <<display, activeTab, selectedClient, compare, roi, adv, inflight>>

\* fetch resolves with a response
FetchResolves(response) ==
    /\ api.stage = "fetching"
    /\ api' = [stage |-> "responded", location |-> api.location,
               API_BASE_URL |-> api.API_BASE_URL,
               op |-> api.op, id |-> api.id, url |-> api.url,
               response |-> response]
    /\ UNCHANGED <<display, activeTab, selectedClient, compare, roi, adv, inflight>>

\* fetch rejects: the binding's catch block runs
FetchRejects(error) ==
    /\ api.stage = "fetching"
    /\ api' = [stage |-> "settled", location |-> api.location,
               API_BASE_URL |-> api.API_BASE_URL,
               op |-> api.op, id |-> api.id, url |-> api.url,
               rejection |-> error,
               result |-> Catch(api.op, api.id, error)]
    /\ UNCHANGED <<display, activeTab, selectedClient, compare, roi, adv, inflight>>

\* handleResponse(response) settles
HandleResponse ==
    /\ api.stage = "responded"
    /\ api' = [stage |-> "handled", location |-> api.location,
               API_BASE_URL |-> api.API_BASE_URL,
               op |-> api.op, id |-> api.id, url |-> api.url,
               response |-> api.response,
               handled |-> handleResponse(api.response)]
    /\ UNCHANGED <<display, activeTab, selectedClient, compare, roi, adv, inflight>>

\* `return await handleResponse(response)` and the catch block around it
BindingSettles ==
    /\ api.stage = "handled"
    /\ api' = [stage |-> "settled", location |-> api.location,
               API_BASE_URL |-> api.API_BASE_URL,
               op |-> api.op, id |-> api.id, url |-> api.url,
               response |-> api.response,
               handled |-> api.handled,
               result |-> IF api.handled.kind = "return" THEN api.handled
                          ELSE Catch(api.op, api.id, api.handled.error)]
    /\ UNCHANGED <<display, activeTab, selectedClient, compare, roi, adv, inflight>>

APINext ==
    \/ \E location \in Locations : LoadModule(location)
    \/ \E op \in Operations : \E id \in OperationIds(op) : ApiCall(op, id)
    \/ \E response \in Responses : FetchResolves(response)
    \/ \E error \in Rejections : FetchRejects(error)
    \/ HandleResponse
    \/ BindingSettles

(***************************************************************************)
(* Display helpers                                                         *)
(***************************************************************************)
DisplayInit == [fn |-> "none"]

\* largest duration and largest ROI percentage the helpers are applied to
MaxDays == 30

MaxROI == 400

\* CampaignSummary.name: string | null
CampaignNames == {JNull, JString(<<>>), JString(<<"Spring Sale">>)}

CampaignSummaries ==
    {[campaign_id |-> c.campaign_id, name |-> n] : c \in AllCampaigns, n \in CampaignNames}

\* duration_days: number | null
Durations == {JNull} \cup {JNumber(n) : n \in 0..MaxDays}

Percentages == (0 - MaxROI)..MaxROI

\* largest change_percent, counted in tenths of a percent
MaxChangeTenths == 30

\* KPIChange, with change_percent in tenths of a percent (-12.5 is -125)
KPIChanges ==
    {[is_positive |-> p, change_percent |-> t] :
        p \in BOOLEAN, t \in (0 - MaxChangeTenths)..MaxChangeTenths}

\* Number.prototype.toFixed(1) on a number of tenths
ToFixed1(tenths) ==
    LET x == IF tenths < 0 THEN 0 - tenths ELSE tenths
    IN  (IF tenths < 0 THEN <<"-">> ELSE <<>>)
            \o NatToString(x \div 10) \o <<".", Digits[(x % 10) + 1]>>

\* a sign taken from the number instead of the flag
formatKPIChangeByNumericSign(kpiChange) ==
    (IF kpiChange.change_percent > 0 THEN <<"+">> ELSE <<>>)
        \o ToFixed1(kpiChange.change_percent) \o <<"%">>

formatKPIChange(kpiChange) ==
    LET sign == IF kpiChange.is_positive THEN <<"+">> ELSE <<>>
    IN  sign \o ToFixed1(kpiChange.change_percent) \o <<"%">>

\* `campaign.name ?? ...`: only null falls through
formatCampaignNameNullish(campaign) ==
    IF campaign.name.kind # "null" THEN campaign.name.str
    ELSE <<"Campaign ">> \o NumberToString(campaign.campaign_id)

formatCampaignName(campaign) ==
    IF Truthy(campaign.name) THEN campaign.name.str
    ELSE <<"Campaign ">> \o NumberToString(campaign.campaign_id)

\* `durationDays == null` in place of `!durationDays`
formatDurationNullOnly(durationDays) ==
    IF durationDays.kind = "null" THEN <<"Unknown duration">>
    ELSE IF durationDays = JNumber(1) THEN <<"1 day">>
    ELSE NumberToString(durationDays.num) \o <<" days">>

formatDuration(durationDays) ==
    IF ~Truthy(durationDays) THEN <<"Unknown duration">>
    ELSE IF durationDays = JNumber(1) THEN <<"1 day">>
    ELSE NumberToString(durationDays.num) \o <<" days">>

\* exclusive lower bounds
getROIPerformanceIndicatorExclusive(roiPercentage) ==
    IF roiPercentage > 300 THEN [label |-> "Excellent ROI", color |-> "text-green-600"]
    ELSE IF roiPercentage > 100 THEN [label |-> "Good ROI", color |-> "text-green-500"]
    ELSE IF roiPercentage > 0 THEN [label |-> "Positive ROI", color |-> "text-blue-500"]
    ELSE [label |-> "Loss", color |-> "text-red-500"]

getROIPerformanceIndicator(roiPercentage) ==
    IF roiPercentage >= 300 THEN [label |-> "Excellent ROI", color |-> "text-green-600"]
    ELSE IF roiPercentage >= 100 THEN [label |-> "Good ROI", color |-> "text-green-500"]
    ELSE IF roiPercentage >= 0 THEN [label |-> "Positive ROI", color |-> "text-blue-500"]
    ELSE [label |-> "Loss", color |-> "text-red-500"]

\* a view renders a campaign name, a duration or an ROI indicator
FormatCampaignName(campaign) ==
    /\ display' = [fn |-> "formatCampaignName", campaign |-> campaign,
                   result |-> formatCampaignName(campaign)]
    /\ UNCHANGED <<api, activeTab, selectedClient, compare, roi, adv, inflight>>

FormatDuration(durationDays) ==
    /\ display' = [fn |-> "formatDuration", durationDays |-> durationDays,
                   result |-> formatDuration(durationDays)]
    /\ UNCHANGED <<api, activeTab, selectedClient, compare, roi, adv, inflight>>

GetROIPerformanceIndicator(roiPercentage) ==
    /\ display' = [fn |-> "getROIPerformanceIndicator", roiPercentage |-> roiPercentage,
                   result |-> getROIPerformanceIndicator(roiPercentage)]
    /\ UNCHANGED <<api, activeTab, selectedClient, compare, roi, adv, inflight>>

getDataSourceDisplay(dataSource) ==
    CASE dataSource = "manual_input" ->
            [label |-> "Manual Input", accuracy |-> "High Accuracy"]
      [] dataSource = "csv_parsed" ->
            [label |-> "AI Parsed File", accuracy |-> "Medium-High Accuracy"]
      [] dataSource = "insufficient_data" ->
            [label |-> "Insufficient Data", accuracy |-> "N/A"]
      [] OTHER -> [label |-> "Unknown", accuracy |-> "Unknown"]

\* the letters String.prototype.toLowerCase changes in the texts below
UpperCaseLetters ==
    <<"A", "B", "C", "D", "E", "F", "G", "H", "I", "J", "K", "L", "M", "N", "O", "P", "Q", "R", "S", "T", "U", "V", "W", "X", "Y", "Z">>

LowerCaseLetters ==
    <<"a", "b", "c", "d", "e", "f", "g", "h", "i", "j", "k", "l", "m", "n", "o", "p", "q", "r", "s", "t", "u", "v", "w", "x", "y", "z">>

ToLowerCase(s) ==
    [i \in 1..Len(s) |->
        IF \E k \in 1..Len(UpperCaseLetters) : UpperCaseLetters[k] = s[i]
        THEN LowerCaseLetters[CHOOSE k \in 1..Len(UpperCaseLetters) : UpperCaseLetters[k] = s[i]]
        ELSE s[i]]

\* StructuralAnalysis.overall_comparability is typed `string`: the four
\* documented tiers in several spellings, and texts that are no tier
Comparabilities ==
    {<<"H", "i", "g", "h">>,
     <<"h", "i", "g", "h">>,
     <<"H", "I", "G", "H">>,
     <<"M", "o", "d", "e", "r", "a", "t", "e">>,
     <<"m", "o", "d", "e", "r", "a", "t", "e">>,
     <<"M", "O", "D", "E", "R", "A", "T", "E">>,
     <<"L", "o", "w">>,
     <<"l", "o", "w">>,
     <<"L", "O", "W">>,
     <<"N", "o", "t", " ", "R", "e", "c", "o", "m", "m", "e", "n", "d", "e", "d">>,
     <<"n", "o", "t", " ", "r", "e", "c", "o", "m", "m", "e", "n", "d", "e", "d">>,
     <<"N", "O", "T", " ", "R", "E", "C", "O", "M", "M", "E", "N", "D", "E", "D">>,
     <<"M", "e", "d", "i", "u", "m">>,
     <<"U", "n", "k", "n", "o", "w", "n">>,
     <<>>}

StructuralAnalyses == {[overall_comparability |-> c] : c \in Comparabilities}

WarningStyle(colour) ==
    [bgColor |-> <<"bg-", colour, "-50">>,
     borderColor |-> <<"border-", colour, "-300">>,
     accentColor |-> <<"bg-", colour, "-500">>,
     iconColor |-> <<"text-", colour, "-600">>,
     textColor |-> <<"text-", colour, "-900">>,
     titleColor |-> <<"text-", colour, "-800">>]

\* a switch on the text as received
getWarningStyleCaseSensitive(comparability) ==
    CASE comparability = <<"n", "o", "t", " ", "r", "e", "c", "o", "m", "m", "e", "n", "d", "e", "d">> -> WarningStyle("red")
      [] comparability = <<"l", "o", "w">> -> WarningStyle("orange")
      [] comparability = <<"m", "o", "d", "e", "r", "a", "t", "e">> -> WarningStyle("yellow")
      [] OTHER -> Null

getWarningStyle(comparability) ==
    CASE ToLowerCase(comparability) = <<"n", "o", "t", " ", "r", "e", "c", "o", "m", "m", "e", "n", "d", "e", "d">> -> WarningStyle("red")
      [] ToLowerCase(comparability) = <<"l", "o", "w">> -> WarningStyle("orange")
      [] ToLowerCase(comparability) = <<"m", "o", "d", "e", "r", "a", "t", "e">> -> WarningStyle("yellow")
      [] OTHER -> Null

\* the compare view renders the structural analysis of a stored result:
\* no banner when getWarningStyle returns null
StructuralWarning(analysis) ==
    /\ display' = [fn |-> "getWarningStyle", analysis |-> analysis,
                   result |-> getWarningStyle(analysis.overall_comparability)]
    /\ UNCHANGED <<api, activeTab, selectedClient, compare, roi, adv, inflight>>

\* the percentage line of a KPI delta card of the compare view, and its
\* colour
KPICardText(kpiData) ==
    LET sign == IF kpiData.change_percent >= 0 THEN <<"+">> ELSE <<>>
    IN  sign \o ToFixed1(kpiData.change_percent) \o <<"%">>

KPICardColor(kpiData) == IF kpiData.is_positive THEN "text-green-700" ELSE "text-red-700"

\* the compare view renders the card of one metric of a stored result
RenderKPICard(kpiData) ==
    /\ display' = [fn |-> "renderKPICard", kpiData |-> kpiData,
                   percentColor |-> KPICardColor(kpiData),
                   result |-> KPICardText(kpiData)]
    /\ UNCHANGED <<api, activeTab, selectedClient, compare, roi, adv, inflight>>

FormatKPIChange(kpiChange) ==
    /\ display' = [fn |-> "formatKPIChange", kpiChange |-> kpiChange,
                   result |-> formatKPIChange(kpiChange)]
    /\ UNCHANGED <<api, activeTab, selectedClient, compare, roi, adv, inflight>>

DisplayNext ==
    \/ \E kpiData \in KPIChanges : RenderKPICard(kpiData)
    \/ \E analysis \in StructuralAnalyses : StructuralWarning(analysis)
    \/ \E kpiChange \in KPIChanges : FormatKPIChange(kpiChange)
    \/ \E campaign \in CampaignSummaries : FormatCampaignName(campaign)
    \/ \E durationDays \in Durations : FormatDuration(durationDays)
    \/ \E roiPercentage \in Percentages : GetROIPerformanceIndicator(roiPercentage)

(***************************************************************************)
(* App: the tabs                                                           *)
(***************************************************************************)
\* the tabs whose components are among the source files
Tabs == {"compare", "roi", "advanced-roi"}

\* Header's onTabChange: renderTabContent unmounts the view of the old tab,
\* whose state is lost and whose pending calls no longer reach any state,
\* and mounts the view of the new tab, whose effect on [selectedClient]
\* runs with the client selected at that moment
SetActiveTab(tab) ==
    /\ tab # activeTab
    /\ activeTab' = tab
    /\ compare' = IF tab = "compare"
                  THEN CmpLoadCampaignsStart(CompareInit, selectedClient)
                  ELSE CompareInit
    /\ roi' = IF tab = "roi" THEN RoiClientEffect(ROIInit, selectedClient) ELSE ROIInit
    /\ adv' = IF tab = "advanced-roi"
              THEN AdvLoadCampaignsStart(AdvInit, selectedClient)
              ELSE AdvInit
    /\ inflight' = CmpCampaignsRequest(selectedClient)
    /\ UNCHANGED <<api, display, selectedClient>>

AppNext ==
    \/ \E tab \in Tabs : SetActiveTab(tab)
    \/ CompareNext
    \/ ROINext
    \/ AdvNext

(***************************************************************************)
(* Specifications                                                          *)
(***************************************************************************)
Init ==
    /\ api = APIInit
    /\ display = DisplayInit
    /\ activeTab = "compare"
    /\ selectedClient = Null
    /\ compare = CompareInit
    /\ roi = ROIInit
    /\ adv = AdvInit
    /\ inflight = <<>>

\* the whole application
SpecApp == Init /\ [][AppNext]_vars

\* some pending call of the rendered view is answered or fails
Settles ==
    \/ /\ activeTab = "compare"
       /\ \E i \in 1..Len(inflight) :
              CmpResolve(i) \/ \E e \in APIErrors : CmpReject(i, e)
    \/ /\ activeTab = "roi"
       /\ \E i \in 1..Len(inflight) :
              (\E r \in ROIResponses : RoiResolve(i, r))
              \/ \E e \in APIErrors : RoiReject(i, e)
    \/ /\ activeTab = "advanced-roi"
       /\ \E i \in 1..Len(inflight) :
              (\E m \in BOOLEAN : AdvResolve(i, m))
              \/ \E e \in APIErrors : AdvReject(i, e)

\* the whole application, with a backend that answers and a network that
\* fails rather than hangs: an awaited call does not stay pending forever
FairSpecApp == SpecApp /\ WF_vars(Settles)

\* the transport layer, called with every outcome of fetch
SpecAPI == Init /\ [][APINext]_vars

\* the display helpers, applied to every input of the sets above
SpecDisplay == Init /\ [][DisplayNext]_vars

\* one view: the user opens its tab and stays there
SpecCompare == Init /\ [][CompareNext]_vars

SpecROI == Init /\ [][SetActiveTab("roi") \/ ROINext]_vars

SpecAdv == Init /\ [][SetActiveTab("advanced-roi") \/ AdvNext]_vars

(***************************************************************************)
(* Properties                                                              *)
(***************************************************************************)
\* the backend calls a step issues
Issued ==
    IF Len(inflight') > Len(inflight) THEN {inflight'[Len(inflight')]} ELSE {}

Pending(op) == {i \in 1..Len(inflight) : inflight[i].op = op}

\* C1: in the compare view a response only ever populates `campaigns` with
\* the list of the currently selected client and `similarCampaigns` with the
\* list of the currently selected primary campaign
C1_OnlyCurrentSelectionPopulates ==
    [][/\ (compare'.campaigns # compare.campaigns /\ compare'.campaigns # <<>>)
            => /\ selectedClient' # Null
               /\ compare'.campaigns = CampaignsOf(selectedClient'.client_id)
       /\ (compare'.similarCampaigns # compare.similarCampaigns
           /\ compare'.similarCampaigns # <<>>)
            => /\ compare'.primaryCampaign # Null
               /\ compare'.similarCampaigns =
                      SimilarOf(compare'.primaryCampaign.campaign_id)]_vars

\* C2: while the similar-campaigns fetch for the selected primary campaign
\* is pending, comparisonCampaign is null, similarCampaigns is empty,
\* compareResult is null and the analysis and similar errors are null
C2_ClearedWhileSimilarPending ==
    (/\ compare.primaryCampaign # Null
     /\ \E i \in Pending("getSimilarCampaigns") :
            inflight[i].body.campaign_id = compare.primaryCampaign.campaign_id)
    => /\ compare.comparisonCampaign = Null
       /\ compare.similarCampaigns = <<>>
       /\ compare.compareResult = Null
       /\ compare.analysisError = NullString
       /\ compare.similarError = NullString

CampaignsPendingForSelectedClient ==
    /\ selectedClient # Null
    /\ \E i \in Pending("getCampaignsByClient") :
           inflight[i].body.client_id = selectedClient.client_id

\* C3: in every view, while the campaign fetch for the selected client is
\* pending, `campaigns` is empty
C3_CampaignsEmptyWhilePending ==
    CampaignsPendingForSelectedClient
    => /\ compare.campaigns = <<>>
       /\ roi.campaigns = <<>>
       /\ adv.campaigns = <<>>

\* C4: a stored compareResult is the comparison of the currently selected
\* primary and comparison campaigns
C4_CompareResultMatchesSelection ==
    compare.compareResult # Null
    => /\ compare.primaryCampaign # Null
       /\ compare.comparisonCampaign # Null
       /\ compare.compareResult =
              CompareOf(<<compare.primaryCampaign.campaign_id,
                          compare.comparisonCampaign.campaign_id>>)

\* the campaign_id a ROI request carries, as a set of zero or one ids
RequestCampaignIds(req) ==
    IF req.op \in {"calculateROI", "calculateROIWithFile"}
       /\ "campaign_id" \in DOMAIN req.body
    THEN {IF req.op = "calculateROI" THEN req.body.campaign_id
          ELSE ParseFloatOrZero(req.body.campaign_id)}
    ELSE {}

\* C5: every change of the selected client resets the selected campaigns of
\* the view to null, and no request carries the campaign_id of a campaign
\* that is not one of the selected client's
C5_ClientChangeResetsCampaign ==
    [][/\ selectedClient' # selectedClient
            => /\ compare'.primaryCampaign = Null
               /\ compare'.comparisonCampaign = Null
               /\ roi'.selectedCampaign = Null
               /\ adv'.selectedCampaign = Null
       /\ \A req \in Issued : \A id \in RequestCampaignIds(req) :
              /\ selectedClient # Null
              /\ Campaign(id) \in Range(CampaignsOf(selectedClient.client_id))]_vars

\* C6: after a backend call fails, the error string of its slot is non-null
\* and the result stored for that slot is cleared
C6_FailureSetsErrorAndClearsResult ==
    [][\A i \in 1..Len(inflight), e \in APIErrors :
          CmpReject(i, e)
          => CASE inflight[i].op = "getCampaignsByClient" ->
                     /\ compare'.campaignError # NullString
                     /\ compare'.campaigns = <<>>
               [] inflight[i].op = "getSimilarCampaigns" ->
                     /\ compare'.similarError # NullString
                     /\ compare'.similarCampaigns = <<>>
               [] inflight[i].op = "compareCampaigns" ->
                     /\ compare'.analysisError # NullString
                     /\ compare'.compareResult = Null]_vars

\* C7: in the ROI view a selected file and non-empty pasted text never
\* coexist
C7_FileAndPasteExclusive ==
    ~(roi.selectedFile # Null /\ roi.pastedData # <<>>)

\* the cost the user entered, when it parses to a positive number
EnteredCostPositive ==
    /\ ~ParseFloat(roi.campaignCost).isNaN
    /\ ParseFloat(roi.campaignCost).value > 0

\* C8: Calculate picks its outcome by priority: a selected file is
\* processed; else non-blank pasted text is sent for parsing; else a cost
\* alone gives the missing-revenue error; else the no-input error
C8_CalculatePriority ==
    [][RoiCalculate
       => IF roi.selectedFile # Null
          THEN \/ \E req \in Issued : req.op = "calculateROIWithFile"
               \/ /\ Issued = {}
                  /\ roi'.fileProcessingError # NullString
          ELSE IF Trim(roi.pastedData) # <<>>
          THEN \E req \in Issued :
                  /\ req.op = "calculateROI"
                  /\ ("campaign_cost" \in DOMAIN req.body) <=> EnteredCostPositive
          ELSE IF EnteredCostPositive
          THEN Issued = {} /\ roi'.calculationError = MissingRevenueMessage
          ELSE Issued = {} /\ roi'.calculationError = NoInputMessage]_vars

\* C9: a POST /calculate-roi body for pasted text carries campaign_cost,
\* equal to the entered cost, exactly when that cost is greater than 0;
\* uploaded_data is the pasted text and data_format is 'text'
C9_CampaignCostIffPositive ==
    [][\A req \in Issued :
          req.op = "calculateROI"
          => /\ req.body.uploaded_data = roi.pastedData
             /\ req.body.data_format = "text"
             /\ ("campaign_cost" \in DOMAIN req.body) <=> EnteredCostPositive
             /\ ("campaign_cost" \in DOMAIN req.body)
                  => req.body.campaign_cost = ParseFloat(roi.campaignCost).value]_vars

\* C9 witness: a pasted-text request carrying the entered cost is in flight
C9_Witness ==
    \E i \in Pending("calculateROI") :
        /\ "campaign_cost" \in DOMAIN inflight[i].body
        /\ inflight[i].body.campaign_cost = 5

\* C10: with CAMPAIGN_MATCHED_ROI off, calling the campaign-matched
\* calculation issues no backend call, leaves campaignResults and
\* isCalculating as they are and sets the error to the coming-soon message
C10_FlagOffNoCall ==
    [][(~FEATURE_FLAGS.CAMPAIGN_MATCHED_ROI /\ AdvCalculateCampaignROI)
       => /\ inflight' = inflight
          /\ adv'.campaignResults = adv.campaignResults
          /\ adv'.isCalculating = adv.isCalculating
          /\ adv'.calculationError = ComingSoonMessage]_vars

\* C10 witness: the coming-soon error is shown though a campaign, a sales
\* file and a cost are all set
C10_Witness ==
    /\ adv.calculationError = ComingSoonMessage
    /\ adv.selectedCampaign # Null
    /\ adv.salesDataFile # Null
    /\ adv.matchedCampaignCost # <<>>

\* C11: a handler that reports a client-side validation error issues no
\* backend call and leaves the stored result as it was, in whatever state
\* it runs: handleAnalyze without both campaigns, Calculate ROI with no file
\* and no pasted text, Calculate ROI with an empty or too large file,
\* calculateSimpleROI with campaign cost <= 0 or revenue <= 0,
\* calculateCampaignROI without campaign, file or cost
C11_ValidationIssuesNoCall ==
    /\ (compare.primaryCampaign = Null \/ compare.comparisonCampaign = Null)
         => /\ HandleAnalyzeRequest(compare) = <<>>
            /\ HandleAnalyzeStart(compare).compareResult = compare.compareResult
            /\ HandleAnalyzeStart(compare).analysisError # NullString
    /\ (roi.selectedFile = Null /\ Trim(roi.pastedData) = <<>>)
         => /\ CalculateRequest(roi) = <<>>
            /\ CalculateStart(roi).roiResult = roi.roiResult
            /\ CalculateStart(roi).calculationError
                   \in {MissingRevenueMessage, NoInputMessage}
    /\ (/\ roi.selectedFile # Null
        /\ ~roi.isProcessingFile
        /\ (roi.selectedFile.size = 0 \/ roi.selectedFile.size > TenMB))
         => /\ CalculateRequest(roi) = <<>>
            /\ CalculateStart(roi).roiResult = roi.roiResult
            /\ CalculateStart(roi).fileProcessingError # NullString
    /\ (\/ ParseFloatOrZero(adv.campaignCost) <= 0
        \/ ParseFloatOrZero(adv.simpleRevenue) <= 0)
         => /\ CalculateSimpleROIRequest(adv) = <<>>
            /\ CalculateSimpleROIStart(adv).simpleResults = adv.simpleResults
            /\ CalculateSimpleROIStart(adv).calculationError = SimpleValidationMessage
    /\ (\/ adv.selectedCampaign = Null
        \/ adv.salesDataFile = Null
        \/ adv.matchedCampaignCost = <<>>)
         => /\ CalculateCampaignROIRequest(adv) = <<>>
            /\ CalculateCampaignROIStart(adv).campaignResults = adv.campaignResults
            /\ CalculateCampaignROIStart(adv).calculationError # NullString

\* C11 witness: the simple calculator shows its validation error, with the
\* result of an earlier calculation still stored and nothing pending
C11_Witness ==
    /\ adv.calculationError = SimpleValidationMessage
    /\ adv.simpleResults # Null
    /\ inflight = <<>>

\* the response handleResponse was applied to has a JSON object body with
\* this key
BodyHasField(response, key) ==
    /\ JSONParse(response.body).ok
    /\ JSONParse(response.body).value.kind = "object"
    /\ key \in DOMAIN JSONParse(response.body).value.fields

BodyField(response, key) == JSONParse(response.body).value.fields[key]

HandleResponseApplied == api.stage \in {"handled", "settled"} /\ "handled" \in DOMAIN api

\* C12 as claimed: for a non-2xx response handleResponse throws an APIError
\* whose message is the body's `detail` if that field is present, else its
\* `message` if present, else "HTTP {status}: {statusText}" (also when the
\* body is not valid JSON); for a 2xx response it returns the parsed body
\* and throws no APIError
C12_DetailIfPresent ==
    HandleResponseApplied =>
        IF ~Ok(api.response)
        THEN /\ api.handled.kind = "throw"
             /\ api.handled.error.name = "APIError"
             /\ api.handled.error.message =
                    IF BodyHasField(api.response, "detail")
                    THEN JSToString(BodyField(api.response, "detail"))
                    ELSE IF BodyHasField(api.response, "message")
                    THEN JSToString(BodyField(api.response, "message"))
                    ELSE DefaultErrorMessage(api.response)
        ELSE IF JSONParse(api.response.body).ok
             THEN api.handled = Return(JSONParse(api.response.body).value)
             ELSE api.handled.kind = "throw" /\ api.handled.error.name # "APIError"

\* C12 amended: as claimed, with `detail` and `message` each taken only
\* when present and truthy (not the empty string, not null)
C12_DetailIfTruthy ==
    HandleResponseApplied =>
        IF ~Ok(api.response)
        THEN /\ api.handled.kind = "throw"
             /\ api.handled.error.name = "APIError"
             /\ api.handled.error.message =
                    IF /\ BodyHasField(api.response, "detail")
                       /\ Truthy(BodyField(api.response, "detail"))
                    THEN JSToString(BodyField(api.response, "detail"))
                    ELSE IF /\ BodyHasField(api.response, "message")
                            /\ Truthy(BodyField(api.response, "message"))
                    THEN JSToString(BodyField(api.response, "message"))
                    ELSE DefaultErrorMessage(api.response)
        ELSE IF JSONParse(api.response.body).ok
             THEN api.handled = Return(JSONParse(api.response.body).value)
             ELSE api.handled.kind = "throw" /\ api.handled.error.name # "APIError"

\* C12 witness: handleResponse threw an APIError with message "X" for a
\* non-2xx response whose body has both `detail` "X" and `message` "M"
C12_Witness ==
    /\ api.stage = "handled"
    /\ ~Ok(api.response)
    /\ BodyHasField(api.response, "detail")
    /\ BodyHasField(api.response, "message")
    /\ api.handled = Throw(APIError(<<"X">>, api.response.status, api.response.body))

\* a binding has settled after fetch resolved with a response
SettledWithResponse == api.stage = "settled" /\ "response" \in DOMAIN api

\* C13: whatever the binding, a non-2xx response reaches the caller as an
\* APIError carrying the response's status and raw body, with the message
\* handleResponse gave it
C13_NonOkCarriesStatusAndBody ==
    (SettledWithResponse /\ ~Ok(api.response))
    => /\ api.result.kind = "throw"
       /\ api.result.error.name = "APIError"
       /\ "status" \in DOMAIN api.result.error
       /\ api.result.error.status = api.response.status
       /\ api.result.error.response = api.response.body
       /\ api.result.error.message = api.handled.error.message

\* the failure a binding's catch block caught, as a set of zero or one
CaughtFailure ==
    IF api.stage # "settled" THEN {}
    ELSE IF "rejection" \in DOMAIN api THEN {api.rejection}
    ELSE IF api.handled.kind = "throw" THEN {api.handled.error}
    ELSE {}

\* `Failed to {operation}: {original}`
IsFailedToMessage(message, original) ==
    /\ Len(message) >= Len(original) + 3
    /\ message[1] = "Failed to "
    /\ message[Len(message) - Len(original)] = ": "
    /\ SubSeq(message, Len(message) - Len(original) + 1, Len(message)) = original

\* C14: every binding, for every outcome of fetch, returns the payload or
\* throws an APIError; a failure that is not an APIError is wrapped into an
\* APIError without status whose message is "Failed to {operation}: "
\* followed by the failure's message, or by "Network error" when the
\* failure is not an Error
C14_ReturnsOrThrowsAPIError ==
    api.stage = "settled"
    => /\ \/ api.result.kind = "return"
          \/ api.result.kind = "throw" /\ api.result.error.name = "APIError"
       /\ \A failure \in CaughtFailure :
              failure.name # "APIError"
              => /\ api.result.kind = "throw"
                 /\ "status" \notin DOMAIN api.result.error
                 /\ IsFailedToMessage(api.result.error.message,
                                      IF failure.isError THEN failure.message
                                      ELSE <<"Network error">>)

\* the loading flag and the error string of a pending call
LoadingFlag(req) ==
    CASE req.op = "getCampaignsByClient" -> "isLoadingCampaigns"
      [] req.op = "getSimilarCampaigns" -> "isLoadingSimilar"
      [] req.op = "compareCampaigns" -> "isAnalyzing"
      [] req.op = "calculateROI" -> "isParsing"
      [] req.op = "calculateROIWithFile" -> "isProcessingFile"
      [] OTHER -> "isCalculating"

ErrorSlot(req) ==
    CASE req.op = "getCampaignsByClient" -> "campaignError"
      [] req.op = "getSimilarCampaigns" -> "similarError"
      [] req.op = "compareCampaigns" -> "analysisError"
      [] req.op = "calculateROI" -> "pasteError"
      [] req.op = "calculateROIWithFile" -> "fileProcessingError"
      [] OTHER -> "calculationError"

\* the view after a failure of `req`: flag down, error string set
FailureReported(v, req) ==
    /\ ~v[LoadingFlag(req)]
    /\ v[ErrorSlot(req)] \notin {NullString, ""}

\* CompareCampaigns: both ways a pending call can complete
CmpCompletionReports(req) ==
    /\ \A e \in APIErrors : FailureReported(CmpOnRejected(compare, req, e), req)
    /\ LET v == CmpOnFulfilled(compare, req)
       IN  /\ ~v[LoadingFlag(req)]
           /\ CASE req.op = "getCampaignsByClient" ->
                       v.campaigns = CampaignsOf(req.body.client_id)
                 [] req.op = "getSimilarCampaigns" ->
                       v.similarCampaigns = SimilarOf(req.body.campaign_id)
                 [] req.op = "compareCampaigns" ->
                       v.compareResult = CompareOf(req.body.campaign_ids)

\* EnhancedROI: both ways a pending call can complete
RoiCompletionReports(req) ==
    /\ \A e \in APIErrors : FailureReported(RoiOnRejected(roi, req, e), req)
    /\ \A r \in ROIResponses :
           LET v == RoiOnFulfilled(roi, req, r)
           IN  /\ ~v[LoadingFlag(req)]
               /\ IF req.op = "getCampaignsByClient"
                  THEN v.campaigns = CampaignsOf(req.body.client_id)
                  ELSE v.roiResult = r

\* AdvancedROI: both ways a pending call can complete; a campaign-matched
\* answer without matching results is reported as an error
AdvCompletionReports(req) ==
    /\ \A e \in APIErrors : FailureReported(AdvOnRejected(adv, req, e), req)
    /\ \A m \in BOOLEAN :
           LET v == AdvOnFulfilled(adv, req, m)
           IN  /\ ~v[LoadingFlag(req)]
               /\ CASE req.op = "getCampaignsByClient" ->
                           v.campaigns = CampaignsOf(req.body.client_id)
                     [] req.op = "calculateAdvancedROISimple" ->
                           /\ v.simpleResults # Null
                           /\ v.simpleResults.totalCost =
                                  AdvSimpleResponse(req.body).total_cost
                     [] OTHER ->
                           IF m THEN v.campaignResults # Null
                           ELSE v.calculationError \notin {NullString, ""}

\* however a pending call of the rendered view completes, its loading flag
\* is false afterwards and its result slot holds the response, or its
\* error string is set
CompletionStoresResultOrError ==
    \A i \in 1..Len(inflight) :
        (activeTab = "compare" => CmpCompletionReports(inflight[i]))
        /\ (activeTab = "roi" => RoiCompletionReports(inflight[i]))
        /\ (activeTab = "advanced-roi" => AdvCompletionReports(inflight[i]))

NoLoadingFlagSet ==
    /\ ~compare.isLoadingCampaigns /\ ~compare.isLoadingSimilar /\ ~compare.isAnalyzing
    /\ ~roi.isLoadingCampaigns /\ ~roi.isParsing /\ ~roi.isProcessingFile
    /\ ~adv.isLoadingCampaigns /\ ~adv.isCalculating

OneCallSettled == \E i \in 1..Len(inflight) : inflight' = RemoveAt(inflight, i)

\* a failure was reported in this step
FailureShown ==
    \/ compare'.campaignError \notin {compare.campaignError, NullString}
    \/ compare'.similarError \notin {compare.similarError, NullString}
    \/ compare'.isAnalyzing # compare.isAnalyzing /\ compare'.analysisError # NullString

\* the user selected something or pressed Analyze in this step
UserActed ==
    \/ selectedClient' # selectedClient
    \/ compare'.primaryCampaign # compare.primaryCampaign
    \/ compare'.comparisonCampaign # compare.comparisonCampaign
    \/ ~compare.isAnalyzing /\ compare'.isAnalyzing

\* C16: selecting a client issues exactly one getCampaignsByClient with its
\* id and nothing else, selecting a primary campaign issues exactly one
\* getSimilarCampaigns with its id and tolerance 2 and nothing else,
\* clearing either selection issues nothing, the step that reports a failure
\* issues nothing, and no call is issued by a step in which the user did
\* not act
C16_OneFetchPerSelection ==
    [][/\ selectedClient' # selectedClient =>
              inflight' =
                  IF selectedClient' = Null THEN inflight
                  ELSE Append(inflight,
                              Request("getCampaignsByClient",
                                      [client_id |-> selectedClient'.client_id],
                                      NoClosure))
       /\ (selectedClient' = selectedClient
           /\ compare'.primaryCampaign # compare.primaryCampaign) =>
              inflight' =
                  IF compare'.primaryCampaign = Null THEN inflight
                  ELSE Append(inflight,
                              Request("getSimilarCampaigns",
                                      [campaign_id |-> compare'.primaryCampaign.campaign_id,
                                       duration_tolerance |-> 2],
                                      NoClosure))
       /\ FailureShown => OneCallSettled
       /\ (inflight' # inflight /\ ~OneCallSettled) => UserActed]_vars

\* C16 witness: a primary campaign was selected and its one
\* getSimilarCampaigns call is the only call pending
C16_Witness ==
    /\ compare.primaryCampaign # Null
    /\ compare.isLoadingSimilar
    /\ inflight = <<Request("getSimilarCampaigns",
                            [campaign_id |-> compare.primaryCampaign.campaign_id,
                             duration_tolerance |-> 2],
                            NoClosure)>>

\* C17: a comparison request is issued only with both campaigns selected,
\* and its body is exactly {campaign_ids: [primary id, comparison id]}:
\* two ids, the primary first, and no other field
C17_CompareBodyIsTwoIds ==
    [][\A req \in Issued :
          req.op = "compareCampaigns" =>
              /\ compare.primaryCampaign # Null
              /\ compare.comparisonCampaign # Null
              /\ req.body = [campaign_ids |-> <<compare.primaryCampaign.campaign_id,
                                                compare.comparisonCampaign.campaign_id>>]]_vars

\* C18, as stated: "Campaign {campaign_id}" when name is null, and the name
\* unchanged whenever it is non-null, the empty string included
C18_NameUnchangedWhenNonNull ==
    display.fn = "formatCampaignName" =>
        IF display.campaign.name = JNull
        THEN display.result = <<"Campaign ">> \o NumberToString(display.campaign.campaign_id)
        ELSE display.result = display.campaign.name.str

\* C18, amended: "Campaign {campaign_id}" when name is null or the empty
\* string, and the name unchanged otherwise
C18_NameUnchangedWhenNonEmpty ==
    display.fn = "formatCampaignName" =>
        IF display.campaign.name \in {JNull, JString(<<>>)}
        THEN display.result = <<"Campaign ">> \o NumberToString(display.campaign.campaign_id)
        ELSE display.result = display.campaign.name.str

\* C18 witness: campaign 11 with the empty name is shown as "Campaign 11"
C18_Witness ==
    /\ display.fn = "formatCampaignName"
    /\ display.campaign = [campaign_id |-> 11, name |-> JString(<<>>)]
    /\ display.result = <<"Campaign ", "1", "1">>

\* C19: formatDuration gives "Unknown duration" for null and for 0, "1 day"
\* for 1 and "{n} days" for every n > 1
C19_DurationText ==
    display.fn = "formatDuration" =>
        LET d == display.durationDays
        IN  /\ d \in {JNull, JNumber(0)} => display.result = <<"Unknown duration">>
            /\ d = JNumber(1) => display.result = <<"1 day">>
            /\ (d.kind = "number" /\ d.num > 1) =>
                   display.result = NumberToString(d.num) \o <<" days">>

\* C19 witness: formatDuration(0) gave "Unknown duration"
C19_Witness ==
    /\ display.fn = "formatDuration"
    /\ display.durationDays = JNumber(0)
    /\ display.result = <<"Unknown duration">>

\* C20: the label is "Excellent ROI" exactly for pct >= 300, "Good ROI"
\* exactly for 100 <= pct < 300, "Positive ROI" exactly for 0 <= pct < 100
\* and "Loss" exactly for pct < 0, so one tier applies to every value
C20_TiersInclusiveBelow ==
    display.fn = "getROIPerformanceIndicator" =>
        LET pct == display.roiPercentage
            label == display.result.label
        IN  /\ label \in {"Excellent ROI", "Good ROI", "Positive ROI", "Loss"}
            /\ label = "Excellent ROI" <=> pct >= 300
            /\ label = "Good ROI" <=> (100 <= pct /\ pct < 300)
            /\ label = "Positive ROI" <=> (0 <= pct /\ pct < 100)
            /\ label = "Loss" <=> pct < 0

\* C20 witness: 300 itself is rated "Excellent ROI"
C20_Witness ==
    /\ display.fn = "getROIPerformanceIndicator"
    /\ display.roiPercentage = 300
    /\ display.result.label = "Excellent ROI"

\* C21: the text formatKPIChange returns is the percentage with one decimal
\* and a "%", preceded by "+" when is_positive is true and by nothing when
\* it is false, whatever the sign of change_percent
C21_PlusIffIsPositive ==
    display.fn = "formatKPIChange" =>
        LET percentage == ToFixed1(display.kpiChange.change_percent) \o <<"%">>
        IN  IF display.kpiChange.is_positive
            THEN display.result = <<"+">> \o percentage
            ELSE display.result = percentage

\* C21 witness: a change of -2.5 flagged positive is shown as "+-2.5%"
C21_Witness ==
    /\ display.fn = "formatKPIChange"
    /\ display.kpiChange = [is_positive |-> TRUE, change_percent |-> 0 - 25]
    /\ display.result = <<"+", "-", "2", ".", "5", "%">>

\* the base URL the claim gives for a page
ExpectedBaseURL(location) ==
    IF location.hostname \in {"localhost", "127.0.0.1"}
    THEN <<"http://localhost:8000", "/api/v1">>
    ELSE location.origin \o <<"/api/v1">>

\* C22: once the module is loaded, API_BASE_URL is
\* "http://localhost:8000/api/v1" exactly when the hostname is localhost or
\* 127.0.0.1 and "{origin}/api/v1" otherwise; it and the page never change
\* afterwards; and every binding's URL is built from it: the base followed
\* by the endpoint path, or for the health check the base without
\* "/api/v1" followed by "/health"
C22_BaseURLFixedAtLoad ==
    /\ [](api.stage # "unloaded" =>
             /\ api.API_BASE_URL = ExpectedBaseURL(api.location)
             /\ api.API_BASE_URL = <<"http://localhost:8000", "/api/v1">>
                    <=> api.location.hostname \in {"localhost", "127.0.0.1"})
    /\ []("url" \in DOMAIN api =>
             IF api.op = "healthCheck"
             THEN api.url = <<Head(ExpectedBaseURL(api.location)), "/health">>
             ELSE /\ Len(api.url) > Len(api.API_BASE_URL)
                  /\ SubSeq(api.url, 1, Len(api.API_BASE_URL))
                         = ExpectedBaseURL(api.location))
    /\ [][api.stage # "unloaded" =>
             /\ api'.API_BASE_URL = api.API_BASE_URL
             /\ api'.location = api.location]_vars

\* C22 witness: on 127.0.0.1 a campaigns request goes to the local backend
C22_Witness ==
    /\ api.stage = "fetching"
    /\ api.location.hostname = "127.0.0.1"
    /\ api.url = <<"http://localhost:8000", "/api/v1", "/campaigns/by-client/", "1">>

\* the banner is rendered
BannerShown == display.result # Null

Tier == ToLowerCase(display.analysis.overall_comparability)

C24_SelectionsFromCurrentLists ==
    /\ compare.comparisonCampaign # Null =>
           /\ compare.primaryCampaign # Null
           /\ compare.comparisonCampaign
                  \in Range(SimilarOf(compare.primaryCampaign.campaign_id))
    /\ compare.primaryCampaign # Null =>
           /\ selectedClient # Null
           /\ compare.primaryCampaign \in Range(CampaignsOf(selectedClient.client_id))

\* C25: in the rendered view, while a campaign fetch is in flight the
\* view's isLoadingCampaigns is true, and while a similar-campaigns fetch is
\* in flight isLoadingSimilar is true
C25_LoadingWhileFetchInFlight ==
    /\ Pending("getCampaignsByClient") # {} =>
           CASE activeTab = "compare" -> compare.isLoadingCampaigns
             [] activeTab = "roi" -> roi.isLoadingCampaigns
             [] activeTab = "advanced-roi" -> adv.isLoadingCampaigns
    /\ Pending("getSimilarCampaigns") # {} => compare.isLoadingSimilar

\* C26: in the compare view an error message and a loaded list of the same
\* slot never coexist
C26_ErrorImpliesEmptyList ==
    /\ compare.campaignError # NullString => compare.campaigns = <<>>
    /\ compare.similarError # NullString => compare.similarCampaigns = <<>>

\* the pending calls that a button started
PendingCalculations ==
    {i \in 1..Len(inflight) :
        inflight[i].op \in {"compareCampaigns", "calculateROI", "calculateROIWithFile",
                            "calculateAdvancedROISimple",
                            "calculateAdvancedROICampaignMatched"}}

\* C27: in the rendered view at most one user-triggered calculation is in
\* flight
C27_OneCalculationInFlight == Cardinality(PendingCalculations) <= 1

\* C28: in the ROI view a step that stores a new roiResult leaves no error
\* message in view state
C28_SuccessLeavesNoError ==
    [][(activeTab = "roi" /\ roi'.roiResult # roi.roiResult /\ roi'.roiResult # Null) =>
          /\ roi'.calculationError = NullString
          /\ roi'.pasteError = NullString
          /\ roi'.fileProcessingError = NullString]_vars

\* C29: the accuracy the ROI view shows for a stored result is the one
\* getDataSourceDisplay gives for the result's data_source tag
C29_AccuracyAgreesWithHelper ==
    roi.roiResult # Null =>
        DataSourceText(roi.roiResult).accuracy
            = getDataSourceDisplay(roi.roiResult.data_source).accuracy

\* C30: the text a KPI delta card shows for a metric is the text
\* formatKPIChange produces for the same data, so its "+" follows
\* is_positive and not the sign of change_percent
C30_CardSignFollowsIsPositive ==
    display.fn = "renderKPICard" =>
        /\ display.result = formatKPIChange(display.kpiData)
        /\ Head(display.result) = "+" <=> display.kpiData.is_positive

====
